---- MODULE Spec2Model ----
(***************************************************************************)
(* Model of the homework-status bot (src/homework.py): the token guard,    *)
(* the poll / validate / translate / notify loop of main, and the          *)
(* exception handling around it.                                           *)
(*                                                                         *)
(* Texts are sequences of string tokens; str.format is modelled by the     *)
(* operator Format, which fails with KeyError when a placeholder of the    *)
(* template has no keyword argument, as Python's does.                     *)
(***************************************************************************)
EXTENDS Integers, Sequences, FiniteSets, TLC

\* ------------------------------------------------------------------------
\* Bounds of the model
\* ------------------------------------------------------------------------
MaxHomeworks == 2   \* longest `homeworks` list the service returns
MaxPasses == 3      \* passes of the while loop that are explored
MaxDate == 1        \* the service reports current_date in 1..MaxDate

\* ------------------------------------------------------------------------
\* Python values
\* ------------------------------------------------------------------------
\* None in a string-valued position (os.getenv of an unset variable,
\* dict.get of a missing key)
NoneStr == "None"

\* None / int in an integer-valued position (the cursor)
PyNone == [t |-> "NoneType", v |-> 0]
PyInt(n) == [t |-> "int", v |-> n]

\* str() of a cursor value, as it appears in a formatted text
StrOf(x) == IF x.t = "int" THEN ToString(x.v) ELSE "None"

\* ------------------------------------------------------------------------
\* Module constants of homework.py
\* ------------------------------------------------------------------------
Lit(s) == [ph |-> FALSE, s |-> s]
Ph(s) == [ph |-> TRUE, s |-> s]

REQUEST_ERROR ==
  << Lit("Request to URL"), Ph("url"), Lit("with params"), Ph("params"),
     Lit("returned error"), Ph("error") >>
INCORRECT_STATUS == << Lit("Request returned incorrect status"), Ph("status") >>
TYPE_ERROR ==
  << Lit("Incorrect data type. Expected"), Ph("expected_type"),
     Lit("Received"), Ph("received_type") >>
KEY_ERROR ==
  << Lit("Missing required key in dict"), Ph("dictionary"),
     Lit("Available keys"), Ph("received_keys") >>
HOMEWORK_STATUS_ERROR ==
  << Lit("Received unknown status"), Ph("status"),
     Lit("Need to extend dict"), Ph("dictionary") >>
SEND_MESSAGE_ERROR ==
  << Lit("Failed to send message"), Ph("message"),
     Lit("to chat"), Ph("chat_id") >>

RETRY_PERIOD == 600
ENDPOINT == "https://practicum.yandex.ru/api/user_api/homework_statuses/"
HTTP_OK == 200

HOMEWORK_VERDICTS ==
  [ approved |-> "Work checked: reviewer liked everything.",
    reviewing |-> "Work taken for review.",
    rejected |-> "Work checked: reviewer has remarks." ]

\* ------------------------------------------------------------------------
\* str.format
\* ------------------------------------------------------------------------
RECURSIVE Subst(_, _)
Subst(tpl, kwargs) ==
  IF tpl = << >> THEN << >>
  ELSE (IF Head(tpl).ph THEN kwargs[Head(tpl).s] ELSE << Head(tpl).s >>)
       \o Subst(Tail(tpl), kwargs)

MinOf(S) == CHOOSE m \in S : \A n \in S : m <= n

\* template.format(**kwargs): the text, or KeyError(name) for the first
\* placeholder that has no keyword argument; surplus arguments are ignored
Format(tpl, kwargs) ==
  LET missing == { i \in DOMAIN tpl : tpl[i].ph /\ tpl[i].s \notin DOMAIN kwargs }
  IN  IF missing = {}
      THEN [ok |-> TRUE, text |-> Subst(tpl, kwargs), key |-> ""]
      ELSE [ok |-> FALSE, text |-> << >>, key |-> tpl[MinOf(missing)].s]

\* ------------------------------------------------------------------------
\* Exceptions: a kind and the text of the single argument
\* ------------------------------------------------------------------------
NoError == [kind |-> "", text |-> << >>]
Exc(kind, text) == [kind |-> kind, text |-> text]

\* SomeError(TEMPLATE.format(...)): the arguments are evaluated first, so a
\* failing format raises its KeyError instead of the intended exception
RaiseFormatted(kind, tpl, kwargs) ==
  LET f == Format(tpl, kwargs)
  IN  IF f.ok THEN Exc(kind, f.text) ELSE Exc("KeyError", << f.key >>)

\* repr(error)
Repr(e) == << e.kind, "(" >> \o e.text \o << ")" >>

\* ------------------------------------------------------------------------
\* JSON bodies the service can answer with
\* ------------------------------------------------------------------------
\* a review item; a key that is missing from the item holds NoneStr
Items ==
  { [status |-> "approved", homework_name |-> "lab1"],
    [status |-> "rejected", homework_name |-> "lab1"],
    [status |-> "pending", homework_name |-> "lab1"],
    [status |-> NoneStr, homework_name |-> "lab1"] }

SeqsUpTo(S, n) == UNION { [1..k -> S] : k \in 0..n }

\* the value under `homeworks`: the key is absent, or holds null, a string,
\* or a list of review items
HwAbsent == [t |-> "absent", v |-> << >>]
HwNull == [t |-> "NoneType", v |-> << >>]
HwStr == [t |-> "str", v |-> << >>]
HwList(l) == [t |-> "list", v |-> l]
HomeworksValues ==
  { HwAbsent, HwNull, HwStr } \cup { HwList(l) : l \in SeqsUpTo(Items, MaxHomeworks) }

\* the value under `current_date`: the key is absent, or holds an integer
DateAbsent == [t |-> "absent", v |-> 0]
DateValues == { DateAbsent } \cup { PyInt(d) : d \in 1..MaxDate }

NoBody == [t |-> "NoneType", homeworks |-> HwAbsent, current_date |-> DateAbsent]
ListBody == [t |-> "list", homeworks |-> HwAbsent, current_date |-> DateAbsent]
Bodies ==
  { ListBody } \cup
  { [t |-> "dict", homeworks |-> h, current_date |-> d] :
      h \in HomeworksValues, d \in DateValues }

\* what requests.get can do: fail in the transport, or answer with a status
\* code and a body that response.json() parses or rejects
StatusCodes == { HTTP_OK, 404, 503 }
HttpOutcomes ==
  { [kind |-> "RequestException", status_code |-> 0, json |-> FALSE, body |-> NoBody] }
  \cup { [kind |-> "response", status_code |-> c, json |-> FALSE, body |-> NoBody] :
           c \in StatusCodes }
  \cup { [kind |-> "response", status_code |-> HTTP_OK, json |-> TRUE, body |-> b] :
           b \in Bodies }

\* what bot.send_message can do
BotOutcomes == { "ok", "TelegramError" }

\* dict.get(key) on a body: None when the key is absent or holds null
GetHomeworks(body) ==
  IF body.homeworks.t = "absent" THEN HwNull ELSE body.homeworks
GetCurrentDate(body) ==
  IF body.current_date.t = "absent" THEN PyNone ELSE body.current_date

\* dict.keys()
BodyKeys(body) ==
  (IF body.homeworks.t = "absent" THEN << >> ELSE << "homeworks" >>)
  \o (IF body.current_date.t = "absent" THEN << >> ELSE << "current_date" >>)
ItemKeys(item) ==
  (IF item.status = NoneStr THEN << >> ELSE << "status" >>)
  \o (IF item.homework_name = NoneStr THEN << >> ELSE << "homework_name" >>)

\* ------------------------------------------------------------------------
\* The functions of homework.py; each returns the value or the exception
\* ------------------------------------------------------------------------
Return(v) == [ok |-> TRUE, value |-> v, exc |-> NoError]
Raise(e, v) == [ok |-> FALSE, value |-> v, exc |-> e]

Truthy(s) == s # NoneStr /\ s # ""

\* mutant: any() where the code has all()
check_tokens_any(practicum, telegram, chat) ==
  Truthy(practicum) \/ Truthy(telegram) \/ Truthy(chat)

check_tokens(practicum, telegram, chat) ==
  Truthy(practicum) /\ Truthy(telegram) /\ Truthy(chat)

send_message(outcome, text, chat) ==
  IF outcome = "TelegramError"
  THEN Raise(RaiseFormatted("TelegramSendMessageError", SEND_MESSAGE_ERROR,
                            [message |-> text, chat_id |-> << chat >>]), << >>)
  ELSE Return(<< >>)

\* mutant: the status code of the response is not looked at
get_api_answer_nocheck(ts, http) ==
  IF http.kind = "RequestException"
  THEN Raise(RaiseFormatted("RequestError", REQUEST_ERROR,
                            [url |-> << ENDPOINT >>,
                             params |-> << "from_date", StrOf(ts) >>,
                             error |-> << "RequestException" >>]), NoBody)
  ELSE IF ~http.json
  THEN Raise(Exc("JSONDecodeError", << "Expecting value" >>), NoBody)
  ELSE Return(http.body)

get_api_answer(ts, http) ==
  IF http.kind = "RequestException"
  THEN Raise(RaiseFormatted("RequestError", REQUEST_ERROR,
                            [url |-> << ENDPOINT >>,
                             params |-> << "from_date", StrOf(ts) >>,
                             error |-> << "RequestException" >>]), NoBody)
  ELSE IF http.status_code # HTTP_OK
  THEN Raise(RaiseFormatted("StatusCodeError", INCORRECT_STATUS,
                            [status |-> << ToString(http.status_code) >>]), NoBody)
  ELSE IF ~http.json
  THEN Raise(Exc("JSONDecodeError", << "Expecting value" >>), NoBody)
  ELSE Return(http.body)

\* mutant: the single-item variant, which returns element zero only and
\* fails on an empty list
check_response_first(body) ==
  IF body.t # "dict"
  THEN Raise(RaiseFormatted("TypeError", TYPE_ERROR,
                            [expected_type |-> << "dict" >>,
                             received_type |-> << body.t >>]), << >>)
  ELSE LET hw == GetHomeworks(body)
       IN  IF hw.t = "NoneType"
           THEN Raise(RaiseFormatted("KeyError", KEY_ERROR,
                                     [dictionary |-> << "response" >>,
                                      received_keys |-> BodyKeys(body)]), << >>)
           ELSE IF hw.t # "list"
           THEN Raise(RaiseFormatted("TypeError", TYPE_ERROR,
                                     [expected_type |-> << "list" >>,
                                      received_type |-> << hw.t >>]), << >>)
           ELSE IF hw.v = << >>
           THEN Raise(Exc("IndexError", << "list index out of range" >>), << >>)
           ELSE Return(<< hw.v[1] >>)

check_response(body) ==
  IF body.t # "dict"
  THEN Raise(RaiseFormatted("TypeError", TYPE_ERROR,
                            [expected_type |-> << "dict" >>,
                             received_type |-> << body.t >>]), << >>)
  ELSE LET hw == GetHomeworks(body)
       IN  IF hw.t = "NoneType"
           THEN Raise(RaiseFormatted("KeyError", KEY_ERROR,
                                     [dictionary |-> << "response" >>,
                                      received_keys |-> BodyKeys(body)]), << >>)
           ELSE IF hw.t # "list"
           THEN Raise(RaiseFormatted("TypeError", TYPE_ERROR,
                                     [expected_type |-> << "list" >>,
                                      received_type |-> << hw.t >>]), << >>)
           ELSE Return(hw.v)

parse_status(item) ==
  IF item.status = NoneStr \/ item.homework_name = NoneStr
  THEN Raise(RaiseFormatted("KeyError", KEY_ERROR,
                            [dictionary |-> << "homework" >>,
                             received_keys |-> ItemKeys(item)]), << >>)
  ELSE IF item.status \notin DOMAIN HOMEWORK_VERDICTS
  THEN Raise(RaiseFormatted("HomeworkStatusError", HOMEWORK_STATUS_ERROR,
                            [status |-> << item.status >>,
                             received_keys |-> << "approved", "reviewing", "rejected" >>]),
             << >>)
  ELSE Return(<< "Status of work changed", item.homework_name,
                 HOMEWORK_VERDICTS[item.status] >>)

\* f'... {repr(error)}' of main's handler
ErrorMessage(e) == << "Program failure:" >> \o Repr(e)

\* ------------------------------------------------------------------------
\* State
\* ------------------------------------------------------------------------
VARIABLES
  PRACTICUM_TOKEN, TELEGRAM_TOKEN, TELEGRAM_CHAT_ID,  \* os.getenv results
  pc,                  \* position of main
  timestamp,           \* the cursor
  last_error_message,  \* text of the last error notification decided on
  response, homeworks, idx, homework, message, error,  \* locals of the pass
  \* history, not read by the program:
  passes,              \* calls of get_api_answer so far
  slept,               \* seconds slept since the last call of get_api_answer
  polledOK,            \* get_api_answer returned in this pass
  status_code,         \* status code of this pass's HTTP response, 0 if none
  raisedIn,            \* function that raised `error`
  sent,                \* send_message calls of this pass, in order
  parsed, prevParsed,  \* texts parse_status returned in this / the previous pass
  passErr, prevErr,    \* error text handled in this / the previous pass
  startLEM,            \* last_error_message when this pass began
  watch,               \* an error text notified in the current run of
                       \* consecutive failing passes, picked arbitrarily
  resent               \* `watch` was notified again in the same run

tokens == << PRACTICUM_TOKEN, TELEGRAM_TOKEN, TELEGRAM_CHAT_ID >>
locals == << response, homeworks, idx, homework, message, error >>
passHist == << parsed, prevParsed, passErr, prevErr, startLEM >>
runHist == << watch, resent >>
vars == << tokens, pc, timestamp, last_error_message, locals, passes, slept,
           polledOK, status_code, raisedIn, sent, passHist, runHist >>

TokenValues == { NoneStr, "", "token" }
StartTime == 0     \* int(time.time()) when main starts
NoItem == [status |-> NoneStr, homework_name |-> NoneStr]

Init ==
  /\ PRACTICUM_TOKEN \in TokenValues
  /\ TELEGRAM_TOKEN \in TokenValues
  /\ TELEGRAM_CHAT_ID \in TokenValues
  /\ pc = "start"
  /\ timestamp = PyNone
  /\ last_error_message = << >>
  /\ response = NoBody /\ homeworks = << >> /\ idx = 0
  /\ homework = NoItem /\ message = << >> /\ error = NoError
  /\ passes = 0 /\ slept = 0 /\ polledOK = FALSE /\ raisedIn = ""
  /\ sent = << >>
  /\ parsed = {} /\ prevParsed = {} /\ passErr = << >> /\ prevErr = << >>
  /\ startLEM = << >>
  /\ status_code = 0
  /\ watch = << >> /\ resent = FALSE

\* ------------------------------------------------------------------------
\* The try statement of main: which clause takes an exception
\* ------------------------------------------------------------------------
\* mutant: no dedicated clause, every exception goes to except Exception
MainClause_General(e) == "except_exception"

\* mutant: main has no except Exception clause
MainClause_NoGeneral(e) ==
  IF e.kind = "TelegramSendMessageError" THEN "except_telegram" ELSE "propagate"

\* except TelegramSendMessageError comes first, then except Exception
MainClause(e) ==
  IF e.kind = "TelegramSendMessageError" THEN "except_telegram" ELSE "except_exception"

\* mutant: the error notification is sent without a try around it
InnerClause_None(e) == "propagate"

\* the try around the error notification has the single clause
\* except TelegramSendMessageError
InnerClause(e) ==
  IF e.kind = "TelegramSendMessageError" THEN "except_telegram" ELSE "propagate"

\* mutant: the sleep sits at the end of the loop body, so `continue` skips it
ContinueSkipsSleep == "poll"

\* where `continue` inside the handler leads: the finally clause runs first
ContinueTarget == "finally"

\* an exception raised in the try body
RaiseIn(fn, e) ==
  /\ error' = e
  /\ raisedIn' = fn
  /\ pc' = "except"

\* ------------------------------------------------------------------------
\* Actions
\* ------------------------------------------------------------------------
\* main, lines 153-159
CheckTokens ==
  /\ pc = "start"
  /\ IF check_tokens(PRACTICUM_TOKEN, TELEGRAM_TOKEN, TELEGRAM_CHAT_ID)
     THEN /\ timestamp' = PyInt(StartTime)
          /\ last_error_message' = << >>
          /\ pc' = "poll"
     ELSE /\ pc' = "exited"
          /\ UNCHANGED << timestamp, last_error_message >>
  /\ UNCHANGED << tokens, locals, passes, slept, polledOK, status_code,
                  raisedIn, sent, passHist, runHist >>

\* line 163
GetApiAnswer ==
  /\ pc = "poll"
  /\ passes < MaxPasses
  /\ \E http \in HttpOutcomes :
       LET r == get_api_answer(timestamp, http)
       IN  /\ polledOK' = r.ok
           /\ status_code' = http.status_code
           /\ IF r.ok
              THEN /\ response' = r.value
                   /\ pc' = "validate"
                   /\ UNCHANGED << error, raisedIn >>
              ELSE /\ RaiseIn("get_api_answer", r.exc)
                   /\ UNCHANGED response
  /\ passes' = passes + 1
  /\ slept' = 0
  /\ UNCHANGED << tokens, timestamp, last_error_message, homeworks, idx,
                  homework, message, sent, passHist,   runHist >>

\* mutant: the cursor is advanced as soon as the response is validated
CheckResponse_AdvancesCursor ==
  /\ pc = "validate"
  /\ LET r == check_response(response)
     IN  IF r.ok
         THEN /\ homeworks' = r.value
              /\ idx' = 0
              /\ timestamp' = GetCurrentDate(response)
              /\ pc' = "for"
              /\ UNCHANGED << error, raisedIn >>
         ELSE /\ RaiseIn("check_response", r.exc)
              /\ UNCHANGED << homeworks, idx, timestamp >>
  /\ UNCHANGED << tokens, last_error_message, response, homework,
                  message, passes, slept, polledOK, status_code, sent,
                  passHist, runHist >>

\* line 164
CheckResponse ==
  /\ pc = "validate"
  /\ LET r == check_response(response)
     IN  IF r.ok
         THEN /\ homeworks' = r.value
              /\ idx' = 0
              /\ pc' = "for"
              /\ UNCHANGED << error, raisedIn >>
         ELSE /\ RaiseIn("check_response", r.exc)
              /\ UNCHANGED << homeworks, idx >>
  /\ UNCHANGED << tokens, timestamp, last_error_message, response, homework,
                  message, passes, slept, polledOK, status_code, sent, passHist,   runHist >>

\* mutant: a pass without error clears last_error_message
ForNext_ResetsLast ==
  /\ pc = "for"
  /\ IF idx < Len(homeworks)
     THEN /\ homework' = homeworks[idx + 1]
          /\ idx' = idx + 1
          /\ pc' = "parse"
          /\ UNCHANGED last_error_message
     ELSE /\ pc' = "finally"
          /\ last_error_message' = << >>
          /\ UNCHANGED << homework, idx >>
  /\ UNCHANGED << tokens, timestamp, response, homeworks,
                  message, error, passes, slept, polledOK, status_code,
                  raisedIn, sent, passHist, runHist >>

\* mutant: the list is walked from its end
ForNext_Reversed ==
  /\ pc = "for"
  /\ IF idx < Len(homeworks)
     THEN /\ homework' = homeworks[Len(homeworks) - idx]
          /\ idx' = idx + 1
          /\ pc' = "parse"
     ELSE /\ pc' = "finally"
          /\ UNCHANGED << homework, idx >>
  /\ UNCHANGED << tokens, timestamp, last_error_message, response, homeworks,
                  message, error, passes, slept, polledOK, status_code,
                  raisedIn, sent, passHist, runHist >>

\* line 165: the next item of the list, or the end of the try body
ForNext ==
  /\ pc = "for"
  /\ IF idx < Len(homeworks)
     THEN /\ homework' = homeworks[idx + 1]
          /\ idx' = idx + 1
          /\ pc' = "parse"
     ELSE /\ pc' = "finally"
          /\ UNCHANGED << homework, idx >>
  /\ UNCHANGED << tokens, timestamp, last_error_message, response, homeworks,
                  message, error, passes, slept, polledOK, status_code, raisedIn, sent,
                  passHist,  runHist >>

\* line 166
ParseStatus ==
  /\ pc = "parse"
  /\ LET r == parse_status(homework)
     IN  IF r.ok
         THEN /\ message' = r.value
              /\ parsed' = parsed \cup { r.value }
              /\ pc' = "send"
              /\ UNCHANGED << error, raisedIn >>
         ELSE /\ RaiseIn("parse_status", r.exc)
              /\ UNCHANGED << message, parsed >>
  /\ UNCHANGED << tokens, timestamp, last_error_message, response, homeworks,
                  idx, homework, passes, slept, polledOK, status_code, sent,
                  prevParsed, passErr, prevErr, startLEM, runHist >>

\* lines 167-168
SendStatus ==
  /\ pc = "send"
  /\ \E outcome \in BotOutcomes :
       LET r == send_message(outcome, message, TELEGRAM_CHAT_ID)
       IN  /\ sent' = Append(sent, [kind |-> "status", text |-> message, ok |-> r.ok])
           /\ IF r.ok
              THEN /\ timestamp' = GetCurrentDate(response)
                   /\ pc' = "for"
                   /\ UNCHANGED << error, raisedIn >>
              ELSE /\ RaiseIn("send_message", r.exc)
                   /\ UNCHANGED timestamp
  /\ UNCHANGED << tokens, last_error_message, response, homeworks, idx,
                  homework, message, passes, slept, polledOK, status_code, passHist, 
                  runHist >>

\* lines 169-170
ExceptTelegram ==
  /\ pc = "except"
  /\ MainClause(error) = "except_telegram"
  /\ pc' = "finally"
  /\ UNCHANGED << tokens, timestamp, last_error_message, locals, passes, slept,
                  polledOK, status_code, raisedIn, sent, passHist, runHist >>

\* mutant: the comparison is missing
SameAsLast_Never(text, last) == FALSE

\* message == last_error_message, line 173
SameAsLast(text, last) == text = last

\* mutant: the new text is not recorded
RecordLast_Forgotten(text, last) == last

\* mutant: the text is cleared where it should be recorded
RecordLast_Empty(text, last) == << >>

\* last_error_message = message, line 176
RecordLast(text, last) == text

\* lines 171-176
ExceptException ==
  /\ pc = "except"
  /\ MainClause(error) = "except_exception"
  /\ message' = ErrorMessage(error)
  /\ passErr' = message'
  /\ IF SameAsLast(message', last_error_message)
     THEN /\ pc' = ContinueTarget
          /\ UNCHANGED last_error_message
     ELSE /\ last_error_message' = RecordLast(message', last_error_message)
          /\ pc' = "send_error"
  /\ UNCHANGED << tokens, timestamp, response, homeworks, idx, homework, error,
                  passes, slept, polledOK, status_code, raisedIn, sent, parsed,
                  prevParsed, prevErr, startLEM, runHist >>

\* lines 177-180
SendError ==
  /\ pc = "send_error"
  /\ \E outcome \in BotOutcomes :
       LET r == send_message(outcome, message, TELEGRAM_CHAT_ID)
       IN  /\ sent' = Append(sent, [kind |-> "error", text |-> message, ok |-> r.ok])
           /\ IF r.ok
              THEN /\ pc' = "finally"
                   /\ UNCHANGED << error, raisedIn >>
              ELSE /\ error' = r.exc
                   /\ raisedIn' = "send_message"
                   /\ IF InnerClause(r.exc) = "except_telegram"
                      THEN pc' = "finally"
                      ELSE pc' = "crashed"
  /\ resent' = (resent \/ message = watch)
  /\ \/ watch' = watch
     \/ watch = << >> /\ watch' = message
  /\ UNCHANGED << tokens, timestamp, last_error_message, response, homeworks,
                  idx, homework, message, passes, slept, polledOK, status_code, passHist >>

\* lines 181-182, and the jump back to `while True`; the locals are dead
\* here (each is assigned before it is read in the next pass)
Sleep ==
  /\ pc = "finally"
  /\ slept' = slept + RETRY_PERIOD
  /\ pc' = "poll"
  /\ response' = NoBody /\ homeworks' = << >> /\ idx' = 0
  /\ homework' = NoItem /\ message' = << >> /\ error' = NoError
  /\ raisedIn' = "" /\ polledOK' = FALSE /\ status_code' = 0
  /\ sent' = << >>
  /\ prevParsed' = parsed /\ parsed' = {}
  /\ prevErr' = passErr /\ passErr' = << >>
  /\ startLEM' = last_error_message
  /\ IF passErr = << >>
     THEN watch' = << >> /\ resent' = FALSE
     ELSE UNCHANGED runHist
  /\ UNCHANGED << tokens, timestamp, last_error_message, passes >>

Next ==
  \/ CheckTokens
  \/ GetApiAnswer
  \/ CheckResponse
  \/ ForNext
  \/ ParseStatus
  \/ SendStatus
  \/ ExceptTelegram
  \/ ExceptException
  \/ SendError
  \/ Sleep

Spec == Init /\ [][Next]_vars

\* main is one sequential thread: whatever step is next is eventually taken
\* (requests.get, bot.send_message and time.sleep are taken to return)
FairSpec == Spec /\ WF_vars(Next)

\* ------------------------------------------------------------------------
\* Properties
\* ------------------------------------------------------------------------
StatusSends == { i \in DOMAIN sent : sent[i].kind = "status" }
ErrorSends == { i \in DOMAIN sent : sent[i].kind = "error" }
LastSendFailed == sent # << >> /\ ~sent[Len(sent)].ok
LastSendKind == IF sent = << >> THEN "" ELSE sent[Len(sent)].kind

\* C1: when parse_status yields in this pass a text it also yielded in the
\* previous pass, this pass makes no status send of that text.
C1_NoRepeatedStatusSend ==
  \A i \in StatusSends : sent[i].text \notin prevParsed

\* C2: a pass that fails with the error text of the pass before it attempts
\* no error send and leaves last_error_message as it was; a pass that fails
\* with a text other than last_error_message attempts exactly one send of
\* that text.
C2_RepeatedErrorNotResent ==
  /\ (passErr # << >> /\ passErr = prevErr) =>
        /\ pc = "finally"
        /\ ErrorSends = {}
        /\ last_error_message = startLEM
  /\ (pc = "finally" /\ passErr # << >> /\ passErr # startLEM) =>
        /\ Cardinality(ErrorSends) = 1
        /\ \A i \in ErrorSends : sent[i].text = passErr
        /\ last_error_message = passErr

C2_Witness ==
  pc = "finally" /\ passErr # << >> /\ passErr = prevErr

\* C3: at the end of every pass in which get_api_answer returned, the cursor
\* equals the current_date of that response.
C3_CursorFollowsPoll ==
  (pc = "finally" /\ polledOK) => timestamp = GetCurrentDate(response)

\* C4: a transport failure inside send_message never leaves the loop: main
\* never ends with an exception, and after a failed send the pass is at the
\* handler that only logs or at the sleep, from where it goes on.
C4_SendFailureStaysInLoop ==
  /\ pc # "crashed"
  /\ LastSendFailed =>
        \/ pc = "except" /\ LastSendKind = "status" /\ ENABLED ExceptTelegram
        \/ pc = "finally" /\ ENABLED Sleep

C4_Witness ==
  pc = "finally" /\ LastSendFailed /\ LastSendKind = "error"

\* C5: a failed send is the last send of its pass, and handling a failed
\* status send leaves last_error_message as it was at the start of the pass.
C5_FailedSendOnlyLogged ==
  /\ \A i \in DOMAIN sent : ~sent[i].ok => i = Len(sent)
  /\ (LastSendFailed /\ LastSendKind = "status") =>
        /\ last_error_message = startLEM
        /\ passErr = << >>

C5_Witness ==
  pc = "finally" /\ LastSendFailed /\ LastSendKind = "status"

\* C6: every call of get_api_answer but the first is preceded by exactly one
\* sleep of RETRY_PERIOD since the call before it, and no sleep happens
\* inside a pass.
C6_OneSleepPerPass ==
  /\ pc = "poll" => slept = (IF passes = 0 THEN 0 ELSE RETRY_PERIOD)
  /\ pc \in { "validate", "for", "parse", "send", "except", "send_error",
              "finally" } => slept = 0

C6_Witness ==
  /\ pc = "poll" /\ passes >= 2 /\ slept = RETRY_PERIOD
  /\ prevErr # << >> /\ prevErr = last_error_message

\* C7: with a token missing or empty main ends before any poll and any send;
\* with all three present it enters the loop.
AnyTokenMissing ==
  \E tok \in { PRACTICUM_TOKEN, TELEGRAM_TOKEN, TELEGRAM_CHAT_ID } :
    tok \in { NoneStr, "" }

C7_TokenGuard ==
  /\ AnyTokenMissing => pc \in { "start", "exited" } /\ passes = 0 /\ sent = << >>
  /\ (~AnyTokenMissing /\ pc # "start") => pc # "exited"

C7_Witness ==
  /\ pc = "exited"
  /\ PRACTICUM_TOKEN = "token" /\ TELEGRAM_TOKEN = "token"
  /\ TELEGRAM_CHAT_ID = ""

\* C8 as stated: within a run of consecutive failing passes no failure text
\* is notified more than once.
C8_OnePerDistinctText == ~resent

\* C8 amended: a failing pass attempts at most one error send, and only when
\* its text differs from the text of the failing pass right before it, so a
\* run has at most one send per block of consecutive passes with one text.
C8_OnePerBlock ==
  /\ Cardinality(ErrorSends) <= 1
  /\ \A i \in ErrorSends : sent[i].text = passErr /\ passErr # prevErr

C8_Witness ==
  pc = "finally" /\ resent /\ ErrorSends # {}

\* C9: parse_status on an item that has status and homework_name, with a
\* status outside the verdict table, raises HomeworkStatusError.
C9_UnknownStatusError ==
  ( /\ pc = "except" /\ raisedIn = "parse_status"
    /\ homework.status # NoneStr /\ homework.homework_name # NoneStr
    /\ homework.status \notin { "approved", "reviewing", "rejected" } )
  => error.kind = "HomeworkStatusError"

\* C10: check_response on a mapping whose homeworks key is present with a
\* value that is not a list, null included, raises TypeError.
C10_NonListIsTypeError ==
  ( /\ pc = "except" /\ raisedIn = "check_response"
    /\ response.t = "dict"
    /\ response.homeworks.t \notin { "absent", "list" } )
  => error.kind = "TypeError"

\* C11: check_response raises TypeError for a body that is not a mapping and
\* KeyError for a mapping without the homeworks key; for a mapping whose
\* homeworks is a list it raises nothing and returns that list as it is, the
\* empty list included.
C11_CheckResponseContract ==
  /\ (pc = "except" /\ raisedIn = "check_response" /\ response.t # "dict")
        => error.kind = "TypeError"
  /\ (pc = "except" /\ raisedIn = "check_response" /\ response.t = "dict"
        /\ response.homeworks.t = "absent")
        => error.kind = "KeyError"
  /\ (response.t = "dict" /\ response.homeworks.t = "list" /\ pc # "validate")
        => /\ raisedIn # "check_response"
           /\ homeworks = response.homeworks.v

C11_Witness ==
  /\ pc = "finally" /\ response.t = "dict" /\ response.homeworks.t = "list"
  /\ response.homeworks.v = << >> /\ homeworks = << >> /\ error = NoError

\* C12: in a pass whose HTTP response has a status other than 200,
\* get_api_answer raises StatusCodeError with the status code in its text
\* and returns no body, no status notification is sent and no step of the
\* pass changes the cursor.
BadStatusPass ==
  (status_code # 0 /\ status_code # HTTP_OK) =>
     /\ ~polledOK /\ response = NoBody
     /\ StatusSends = {}
     /\ passErr # << >> =>
           /\ passErr[2] = "StatusCodeError"
           /\ \E i \in DOMAIN passErr : passErr[i] = ToString(status_code)
     /\ pc = "except" =>
           /\ raisedIn = "get_api_answer" /\ error.kind = "StatusCodeError"
           /\ \E i \in DOMAIN error.text : error.text[i] = ToString(status_code)

C12_BadStatusFailsPoll ==
  /\ []BadStatusPass
  /\ [][(status_code' # 0 /\ status_code' # HTTP_OK) => timestamp' = timestamp]_vars

C12_Witness ==
  pc = "finally" /\ status_code = 404 /\ ErrorSends # {}

\* C13: inside the loop the cursor is always an integer.
C13_CursorIsInt ==
  pc \notin { "start", "exited" } => timestamp.t = "int"

\* C14: once the token check has passed, every pass that has begun comes
\* back to the top of the loop, and at the top of the loop get_api_answer is
\* called again (for the passes explored), whatever fails on the way.
InPass ==
  pc \in { "validate", "for", "parse", "send", "except", "send_error", "finally" }

C14_AlwaysPollsAgain ==
  /\ InPass ~> (pc = "poll")
  /\ \A n \in 0..(MaxPasses - 1) : (pc = "poll" /\ passes = n) ~> (passes = n + 1)

C14_Witness ==
  pc = "validate" /\ passes = MaxPasses /\ prevErr # << >>

OkStatusSends == { i \in StatusSends : sent[i].ok }

\* C15: inside the loop a step changes the cursor only if it is a successful
\* status send, every successful status send sets the cursor to the
\* current_date of the response, and so a pass without one (poll or
\* validation failed, empty list, first item failed) leaves it as it was.
CurrentDateOf(body) ==
  IF body.current_date.t = "absent" THEN PyNone ELSE body.current_date

C15_CursorMovesOnlyOnSend ==
  /\ [](OkStatusSends # {} => timestamp = CurrentDateOf(response))
  /\ [][(pc # "start" /\ timestamp' # timestamp) =>
          /\ Len(sent') = Len(sent) + 1
          /\ sent'[Len(sent')].kind = "status" /\ sent'[Len(sent')].ok]_vars
  /\ [][(Len(sent') = Len(sent) + 1 /\ sent'[Len(sent')].kind = "status"
           /\ sent'[Len(sent')].ok) =>
          timestamp' = CurrentDateOf(response)]_vars

C15_Witness ==
  /\ pc = "finally" /\ Cardinality(OkStatusSends) = 1
  /\ timestamp = PyInt(1) /\ passes = 1

\* C16: at the end of a pass that has advanced the cursor, every item of the
\* response's list has had its status notification sent successfully.
C16_AllItemsNotified ==
  (pc = "finally" /\ OkStatusSends # {}) =>
     Cardinality(OkStatusSends) = Len(homeworks)

\* C17: a new error text is in last_error_message before its send is
\* attempted, still is after the send failed and at the start of the next
\* pass, and a pass that fails with the text of the pass before it attempts
\* no send.
C17_RecordedBeforeSend ==
  /\ pc = "send_error" =>
        /\ last_error_message = message /\ passErr = message
        /\ ErrorSends = {}
  /\ (LastSendFailed /\ LastSendKind = "error") => last_error_message = passErr
  /\ (pc = "poll" /\ prevErr # << >>) => last_error_message = prevErr
  /\ (passErr # << >> /\ passErr = prevErr) => ErrorSends = {}

C17_Witness ==
  /\ pc = "finally" /\ LastSendFailed /\ LastSendKind = "error"
  /\ last_error_message = passErr /\ startLEM # passErr

\* C18: a pass in which no error is handled leaves last_error_message as it
\* was, and a pass failing with the text last_error_message already holds
\* attempts no error send, also after passes without error in between.
C18_SuccessKeepsLastError ==
  /\ passErr = << >> => last_error_message = startLEM
  /\ (passErr # << >> /\ passErr = startLEM) =>
        /\ pc = "finally"
        /\ ErrorSends = {}
        /\ last_error_message = startLEM

C18_Witness ==
  /\ pc = "finally" /\ passErr # << >> /\ passErr = startLEM
  /\ prevErr = << >> /\ prevParsed = {}

\* C19: the status sends of a pass are those of the first items of the list,
\* in the order of the list; only the last of them can have failed; nothing
\* is sent for an item behind one whose parse_status or send failed.
Translatable(item) ==
  /\ item.homework_name # NoneStr
  /\ item.status \in { "approved", "reviewing", "rejected" }

C19_InOrderStopAtFirstFailure ==
  LET n == Cardinality(StatusSends)
  IN  /\ StatusSends = 1..n
      /\ n <= idx /\ idx <= n + 1 /\ idx <= Len(homeworks)
      /\ \A k \in 1..n :
            /\ Translatable(homeworks[k])
            /\ sent[k].text[2] = homeworks[k].homework_name
            /\ sent[k].text[3] = HOMEWORK_VERDICTS[homeworks[k].status]
      /\ \A k \in 1..(n - 1) : sent[k].ok
      /\ (pc = "finally" /\ n < Len(homeworks)) =>
            \/ n >= 1 /\ ~sent[n].ok
            \/ ~Translatable(homeworks[n + 1])

C19_Witness ==
  /\ pc = "finally" /\ Len(homeworks) = 2 /\ raisedIn = "parse_status"
  /\ Cardinality(StatusSends) = 1 /\ sent[1].ok

====
